---- MODULE Spec2Model ----
(***************************************************************************)
(* A model of src/js/kv_bulk.js: the async function kv_bulk_get(kv, keys,  *)
(* type = "text", withMetadata = false), its callers, and the key-value    *)
(* store it reads from.                                                    *)
(*                                                                         *)
(* A call runs synchronously through the two validations and the store     *)
(* method call (Invoke), is suspended at the await until the store settles *)
(* the promise (StoreFulfil / StoreReject), and then runs its continuation *)
(* (Resume).  The store's contents may be written at any time (StorePut,   *)
(* StoreDelete).  The caller takes the outcome and the slot becomes free   *)
(* for a later call (Collect).                                             *)
(***************************************************************************)
EXTENDS Naturals, Sequences, FiniteSets

VARIABLES
    scenario,   \* "single": one caller, every input; "concurrent": two callers
    contents,   \* the store's namespace: stored key -> entry or Absent
    pc,         \* per call: "idle", "awaiting", "settled", "done"
    args,       \* per call: the arguments as the caller passed them
    received,   \* per call: the store operations the call issued, in order
    replies,    \* per call: how the store settled the promise of that call
    outcome     \* per call: what the call's own promise settled to

vars == <<scenario, contents, pc, args, received, replies, outcome>>

----------------------------------------------------------------------------
(* Bounds *)

\* Longest keys array a caller passes.
MaxLen == 2

----------------------------------------------------------------------------
(* JavaScript values *)

Null == [js |-> "null"]
Str(s) == [js |-> "string", s |-> s]
Num(s) == [js |-> "number", s |-> s]
Parsed(s) == [js |-> "json", s |-> s]
Composite(v, m) == [js |-> "object", value |-> v, metadata |-> m]

\* ToString of a primitive: the property key / Map key it becomes.
ToString(e) == IF e.js = "null" THEN "null" ELSE e.s

EmptyObject == [k \in {} |-> Null]

----------------------------------------------------------------------------
(* Inputs *)

Calls == {"c1", "c2"}

\* Store handles a caller may pass: nothing, an object with neither method,
\* and objects exposing one or both of the bulk reads.
StoreArgs == {"none", "plain", "getOnly", "metaOnly", "full"}

HasGet(kv) == kv \in {"getOnly", "full"}
HasGetWithMetadata(kv) == kv \in {"metaOnly", "full"}

KeyElems == {Str("a"), Str("b"), Num("1")}

RECURSIVE SeqsUpTo(_, _)
SeqsUpTo(S, n) ==
    IF n = 0 THEN {<<>>}
    ELSE LET shorter == SeqsUpTo(S, n - 1)
         IN  shorter \cup {Append(s, e) : s \in shorter, e \in S}

ArrayOf(elems) == [kind |-> "array", elems |-> elems]
NonArray(kind) == [kind |-> kind, elems |-> <<>>]

KeyArgs ==
    {ArrayOf(s) : s \in SeqsUpTo(KeyElems, MaxLen)}
        \cup {NonArray("string"), NonArray("number"), NonArray("null")}

TypeArgs == {"undefined", "text", "json"}
FlagArgs == {"undefined", "true", "false"}

MakeArgs(kv, keys, type, withMetadata) ==
    [kv |-> kv, keys |-> keys, type |-> type, withMetadata |-> withMetadata]

AllArgs ==
    {MakeArgs(kv, keys, type, flag) :
        kv \in StoreArgs, keys \in KeyArgs, type \in TypeArgs, flag \in FlagArgs}

\* Two callers at once draw from a narrower set: the arrays of strings that
\* reach the store, and two calls that fail a validation.
ConcurrentArgs ==
    {MakeArgs(kv, ArrayOf(s), "undefined", flag) :
        kv \in {"getOnly", "full"},
        s \in {<<>>, <<Str("a")>>, <<Str("b"), Str("a")>>},
        flag \in {"true", "false"}}
        \cup {MakeArgs("none", NonArray("string"), "undefined", "undefined"),
              MakeArgs("full", NonArray("string"), "undefined", "true")}

ArgSpace(sc) == IF sc = "single" THEN AllArgs ELSE ConcurrentArgs
CallsIn(sc) == IF sc = "single" THEN {"c1"} ELSE Calls

NoArgs == MakeArgs("none", NonArray("null"), "undefined", "undefined")

----------------------------------------------------------------------------
(* The store *)

StoredKeys == {"a", "b"}
Absent == [raw |-> "", meta |-> ""]
Entries == {[raw |-> "1", meta |-> "Ma"], [raw |-> "2", meta |-> "Mb"]}

StoreErrors == {"batch size limit exceeded", "network fault"}

Lookup(store, k) == IF k \in StoredKeys THEN store[k] ELSE Absent

\* The store's decode-on-read option.
Decode(type, raw) == IF type = "json" THEN Parsed(raw) ELSE Str(raw)

ReadEntry(fn, type, entry) ==
    IF entry = Absent THEN Null
    ELSE IF fn = "getWithMetadata"
         THEN Composite(Decode(type, entry.raw), Str(entry.meta))
         ELSE Decode(type, entry.raw)

\* Map.prototype.set on an insertion-ordered sequence of <<key, value>>.
MapSet(map, k, v) ==
    IF \E i \in 1..Len(map) : map[i][1] = k
    THEN [i \in 1..Len(map) |-> IF map[i][1] = k THEN <<k, v>> ELSE map[i]]
    ELSE Append(map, <<k, v>>)

RECURSIVE BulkRead(_, _, _, _, _)
BulkRead(store, fn, type, elems, map) ==
    IF elems = <<>> THEN map
    ELSE LET k == ToString(Head(elems))
         IN  BulkRead(store, fn, type, Tail(elems),
                      MapSet(map, k, ReadEntry(fn, type, Lookup(store, k))))

NoReply == [status |-> "none", map |-> <<>>, error |-> ""]
Fulfilled(map) == [status |-> "fulfilled", map |-> map, error |-> ""]
Rejected(e) == [status |-> "rejected", map |-> <<>>, error |-> e]

----------------------------------------------------------------------------
(* kv_bulk_get *)

InvalidStoreHandle == "KV namespace not valid"
InvalidKeyList == "keys must be an array of strings"
NotAFunction == "TypeError: kv.getWithMetadata is not a function"

NoOutcome == [status |-> "none", value |-> EmptyObject, error |-> ""]
Returned(obj) == [status |-> "ok", value |-> obj, error |-> ""]
Thrown(e) == [status |-> "error", value |-> EmptyObject, error |-> e]

\* A default parameter value applies when the argument is undefined.
Default(arg, dflt) == IF arg = "undefined" THEN dflt ELSE arg

Truthy(flag) == flag = "true"

\* Variant: a handle is accepted when it exposes either bulk read.
ValidStoreEither(kv) == kv # "none" /\ (HasGet(kv) \/ HasGetWithMetadata(kv))

\* !kv || typeof kv.get !== "function"  is the negation of this.
ValidStore(kv) == kv # "none" /\ HasGet(kv)

\* Variant: anything with a length is accepted, a string included.
IsArrayLike(keys) == keys.kind \in {"array", "string"}

\* Variant: an empty array is refused.
IsNonEmptyArray(keys) == keys.kind = "array" /\ keys.elems # <<>>

IsArray(keys) == keys.kind = "array"

SelectedFn(flag) == IF Truthy(flag) THEN "getWithMetadata" ELSE "get"

Callable(kv, fn) ==
    IF fn = "getWithMetadata" THEN HasGetWithMetadata(kv) ELSE HasGet(kv)

StoreOp(kv, fn, keys, type) ==
    [this |-> kv, fn |-> fn, keys |-> keys, options |-> [type |-> type]]

\* CreateDataProperty on a plain object.
DefineProperty(obj, k, v) ==
    [x \in (DOMAIN obj) \cup {k} |-> IF x = k THEN v ELSE obj[x]]

RECURSIVE AddEntries(_, _)
AddEntries(entries, obj) ==
    IF entries = <<>> THEN obj
    ELSE AddEntries(Tail(entries),
                    DefineProperty(obj, Head(entries)[1], Head(entries)[2]))

\* Variant: entries whose value is null are left out.
FromEntriesSkipNull(map) ==
    AddEntries(SelectSeq(map, LAMBDA e : e[2] # Null), EmptyObject)

\* Variant: a {value, metadata} composite is flattened to its value.
FromEntriesValueOnly(map) ==
    AddEntries([i \in DOMAIN map |->
                   IF map[i][2].js = "object"
                   THEN <<map[i][1], map[i][2].value>> ELSE map[i]],
               EmptyObject)

FromEntries(map) == AddEntries(map, EmptyObject)

\* Variant: the response is kept in one place shared by all calls.
AwaitedShared(c) == replies[CHOOSE d \in Calls : replies[d].status # "none"]

\* What the await in call c evaluates to: the settlement of its own promise.
Awaited(c) == replies[c]

\* Variant: a store failure is caught and an empty mapping returned.
CompletionSwallow(reply) ==
    IF reply.status = "rejected" THEN Returned(EmptyObject)
    ELSE Returned(FromEntries(reply.map))

\* The continuation after the await.
Completion(reply) ==
    IF reply.status = "rejected" THEN Thrown(reply.error)
    ELSE Returned(FromEntries(reply.map))

Throw(c, e) ==
    /\ pc' = [pc EXCEPT ![c] = "done"]
    /\ outcome' = [outcome EXCEPT ![c] = Thrown(e)]
    /\ UNCHANGED <<received, replies>>

Issue(c, op) ==
    /\ pc' = [pc EXCEPT ![c] = "awaiting"]
    /\ received' = [received EXCEPT ![c] = Append(@, op)]
    /\ UNCHANGED <<replies, outcome>>

Invoke(c, a) ==
    /\ pc[c] = "idle"
    /\ args' = [args EXCEPT ![c] = a]
    /\ LET type == Default(a.type, "text")
           withMetadata == Default(a.withMetadata, "false")
           fn == SelectedFn(withMetadata)
       IN  IF ~ValidStore(a.kv) THEN Throw(c, InvalidStoreHandle)
           ELSE IF ~IsArray(a.keys) THEN Throw(c, InvalidKeyList)
           ELSE IF ~Callable(a.kv, fn) THEN Throw(c, NotAFunction)
           ELSE Issue(c, StoreOp(a.kv, fn, a.keys, type))
    /\ UNCHANGED <<scenario, contents>>

Resume(c) ==
    /\ pc[c] = "settled"
    /\ pc' = [pc EXCEPT ![c] = "done"]
    /\ outcome' = [outcome EXCEPT ![c] = Completion(Awaited(c))]
    /\ UNCHANGED <<scenario, contents, args, received, replies>>

Collect(c) ==
    /\ pc[c] = "done"
    /\ pc' = [pc EXCEPT ![c] = "idle"]
    /\ args' = [args EXCEPT ![c] = NoArgs]
    /\ received' = [received EXCEPT ![c] = <<>>]
    /\ replies' = [replies EXCEPT ![c] = NoReply]
    /\ outcome' = [outcome EXCEPT ![c] = NoOutcome]
    /\ UNCHANGED <<scenario, contents>>

----------------------------------------------------------------------------
(* The store's steps *)

StoreFulfil(c) ==
    /\ pc[c] = "awaiting"
    /\ LET op == received[c][Len(received[c])]
       IN  replies' = [replies EXCEPT ![c] =
               Fulfilled(BulkRead(contents, op.fn, op.options.type,
                                  op.keys.elems, <<>>))]
    /\ pc' = [pc EXCEPT ![c] = "settled"]
    /\ UNCHANGED <<scenario, contents, args, received, outcome>>

StoreReject(c, e) ==
    /\ pc[c] = "awaiting"
    /\ replies' = [replies EXCEPT ![c] = Rejected(e)]
    /\ pc' = [pc EXCEPT ![c] = "settled"]
    /\ UNCHANGED <<scenario, contents, args, received, outcome>>

StorePut(k, entry) ==
    /\ contents[k] # entry
    /\ contents' = [contents EXCEPT ![k] = entry]
    /\ UNCHANGED <<scenario, pc, args, received, replies, outcome>>

StoreDelete(k) ==
    /\ contents[k] # Absent
    /\ contents' = [contents EXCEPT ![k] = Absent]
    /\ UNCHANGED <<scenario, pc, args, received, replies, outcome>>

----------------------------------------------------------------------------
(* Specification *)

Init ==
    /\ scenario \in {"single", "concurrent"}
    /\ contents = [k \in StoredKeys |->
                      IF k = "a" THEN [raw |-> "1", meta |-> "Ma"] ELSE Absent]
    /\ pc = [c \in Calls |-> "idle"]
    /\ args = [c \in Calls |-> NoArgs]
    /\ received = [c \in Calls |-> <<>>]
    /\ replies = [c \in Calls |-> NoReply]
    /\ outcome = [c \in Calls |-> NoOutcome]

Next ==
    \/ \E c \in CallsIn(scenario), a \in ArgSpace(scenario) : Invoke(c, a)
    \/ \E c \in Calls : Resume(c)
    \/ \E c \in Calls : Collect(c)
    \/ \E c \in Calls : StoreFulfil(c)
    \/ \E c \in Calls, e \in StoreErrors : StoreReject(c, e)
    \/ \E k \in StoredKeys, entry \in Entries : StorePut(k, entry)
    \/ \E k \in StoredKeys : StoreDelete(k)

Spec == Init /\ [][Next]_vars

----------------------------------------------------------------------------
(* Properties *)

Flag(c) == Default(args[c].withMetadata, "false")
KeysAreArray(c) == args[c].keys.kind = "array"
MapKeys(map) == {map[i][1] : i \in DOMAIN map}

\* The object holds exactly the pairs of the Map: same keys, same values.
SamePairs(obj, map) ==
    /\ DOMAIN obj = MapKeys(map)
    /\ \A i \in DOMAIN map : obj[map[i][1]] = map[i][2]

\* C1: with a store exposing get, a non-empty keys array and
\* includeMetadata=false, the call reads the store, and once the store has
\* answered the result holds exactly the pairs of the store's value-only
\* response, absence markers (null) included.
C1_ValueOnlyPassThrough ==
    \A c \in Calls :
        (/\ pc[c] = "done"
         /\ HasGet(args[c].kv)
         /\ KeysAreArray(c) /\ args[c].keys.elems # <<>>
         /\ Flag(c) = "false")
        => /\ replies[c].status # "none"
           /\ received[c][1].fn = "get"
           /\ replies[c].status = "fulfilled"
                => /\ outcome[c].status = "ok"
                   /\ SamePairs(outcome[c].value, replies[c].map)

C1_Witness ==
    \E c \in Calls :
        /\ pc[c] = "done"
        /\ args[c].keys = ArrayOf(<<Str("a"), Str("b")>>)
        /\ Flag(c) = "false"
        /\ replies[c] = Fulfilled(<<<<"a", Str("1")>>, <<"b", Null>>>>)
        /\ outcome[c].status = "ok"
        /\ outcome[c].value["a"] = Str("1")
        /\ outcome[c].value["b"] = Null

\* C2: with includeMetadata=true, once the store has answered the combined
\* read, the result's key set is the response's key set and every key maps
\* to a composite with the response's value and metadata, or to the absence
\* marker where the store returned one.
C2_MetadataPassThrough ==
    \A c \in Calls :
        (/\ pc[c] = "done"
         /\ args[c].kv = "full"
         /\ KeysAreArray(c)
         /\ Flag(c) = "true")
        => /\ replies[c].status # "none"
           /\ received[c][1].fn = "getWithMetadata"
           /\ replies[c].status = "fulfilled"
                => /\ outcome[c].status = "ok"
                   /\ DOMAIN outcome[c].value = MapKeys(replies[c].map)
                   /\ \A i \in DOMAIN replies[c].map :
                        LET given == replies[c].map[i][2]
                            got == outcome[c].value[replies[c].map[i][1]]
                        IN  IF given = Null THEN got = Null
                            ELSE /\ DOMAIN got = {"js", "value", "metadata"}
                                 /\ got.value = given.value
                                 /\ got.metadata = given.metadata

C2_Witness ==
    \E c \in Calls :
        /\ pc[c] = "done"
        /\ args[c].keys = ArrayOf(<<Str("a"), Str("b")>>)
        /\ Flag(c) = "true"
        /\ outcome[c].status = "ok"
        /\ outcome[c].value["a"] = Composite(Str("1"), Str("Ma"))
        /\ outcome[c].value["b"] = Null

\* C3 as stated: whenever keys is not an array the call fails with
\* InvalidKeyList and issues no store read, whatever includeMetadata is.
C3_Original ==
    \A c \in Calls :
        (pc[c] # "idle" /\ ~KeysAreArray(c))
        => /\ pc[c] = "done"
           /\ outcome[c] = Thrown(InvalidKeyList)
           /\ received[c] = <<>>

\* C3 as amended: whenever keys is not an array and the store is present and
\* exposes a callable value-only read, the call fails with InvalidKeyList and
\* issues no store read, whatever includeMetadata is.
C3_NonArrayRejected ==
    \A c \in Calls :
        (pc[c] # "idle" /\ ~KeysAreArray(c) /\ HasGet(args[c].kv))
        => /\ pc[c] = "done"
           /\ outcome[c] = Thrown(InvalidKeyList)
           /\ received[c] = <<>>

C3_Witness ==
    \E c \in Calls :
        /\ pc[c] = "done"
        /\ args[c].keys = NonArray("string")
        /\ args[c].kv = "full"
        /\ Flag(c) = "true"
        /\ outcome[c] = Thrown(InvalidKeyList)
        /\ received[c] = <<>>

\* C4: a store lacking the read function of the requested mode is rejected
\* with InvalidStoreHandle and no store call is issued; a store exposing
\* that function is never rejected with InvalidStoreHandle.  (Stated for
\* calls whose keys argument is an array.)
C4_ModeCapabilityChecked ==
    \A c \in Calls :
        (pc[c] # "idle" /\ KeysAreArray(c) /\ args[c].kv # "none")
        => IF Callable(args[c].kv, SelectedFn(Flag(c)))
           THEN outcome[c].error # InvalidStoreHandle
           ELSE /\ pc[c] = "done"
                /\ outcome[c] = Thrown(InvalidStoreHandle)
                /\ received[c] = <<>>

\* C5: a failed store read fails the call with that same failure; the call
\* never succeeds after it, returns no mapping, and reads the store once.
\* A result is produced only from a store read that succeeded, and nothing
\* is produced while the read is outstanding.
C5_StoreFailurePropagates ==
    \A c \in Calls :
        /\ replies[c].status = "rejected"
             => /\ outcome[c].status # "ok"
                /\ outcome[c].value = EmptyObject
                /\ Len(received[c]) = 1
                /\ pc[c] = "done" => outcome[c] = Thrown(replies[c].error)
        /\ outcome[c].status = "ok" => replies[c].status = "fulfilled"
        /\ pc[c] \in {"awaiting", "settled"} => outcome[c] = NoOutcome

C5_Witness ==
    \E c \in Calls :
        /\ pc[c] = "done"
        /\ replies[c] = Rejected("network fault")
        /\ outcome[c] = Thrown("network fault")

\* C6: keys that is not a sequence of strings, an array with a non-string
\* element included, is rejected with InvalidKeyList and never handed to
\* the store.  (Stated for a store that passes the store validation.)
C6_NonStringElementRejected ==
    \A c \in Calls :
        (/\ pc[c] # "idle"
         /\ HasGet(args[c].kv)
         /\ \/ ~KeysAreArray(c)
            \/ \E i \in DOMAIN args[c].keys.elems :
                    args[c].keys.elems[i].js # "string")
        => /\ pc[c] = "done"
           /\ outcome[c] = Thrown(InvalidKeyList)
           /\ received[c] = <<>>

\* C7: an empty keys array is not rejected as InvalidKeyList; with a store
\* exposing the reads of the mode it is handed to the store, and when the
\* store answers with an empty response the call returns an empty mapping.
C7_EmptyKeysAccepted ==
    \A c \in Calls :
        (pc[c] # "idle" /\ args[c].keys = ArrayOf(<<>>))
        => /\ outcome[c].error # InvalidKeyList
           /\ (HasGet(args[c].kv) /\ Callable(args[c].kv, SelectedFn(Flag(c))))
                => /\ Len(received[c]) = 1
                   /\ received[c][1].keys = ArrayOf(<<>>)
           /\ (pc[c] = "done" /\ replies[c] = Fulfilled(<<>>))
                => outcome[c] = Returned(EmptyObject)

C7_Witness ==
    \E c, d \in Calls :
        /\ pc[c] = "done" /\ pc[d] = "done"
        /\ args[c].keys = ArrayOf(<<>>) /\ args[d].keys = ArrayOf(<<>>)
        /\ Flag(c) = "false" /\ Flag(d) = "true"
        /\ replies[c] = Fulfilled(<<>>) /\ replies[d] = Fulfilled(<<>>)
        /\ outcome[c] = Returned(EmptyObject)
        /\ outcome[d] = Returned(EmptyObject)

\* C8: a call that passes both validations issues exactly one store
\* operation: the read of its mode, with the caller's keys and decodeFormat
\* unchanged, "text" and value-only when the caller omits them.
C8_ExactlyOneRead ==
    \A c \in Calls :
        (pc[c] # "idle" /\ HasGet(args[c].kv) /\ KeysAreArray(c))
        => received[c] =
             <<[this |-> args[c].kv,
                fn |-> IF args[c].withMetadata = "true"
                       THEN "getWithMetadata" ELSE "get",
                keys |-> args[c].keys,
                options |-> [type |-> IF args[c].type = "undefined"
                                      THEN "text" ELSE args[c].type]]>>

\* C9: the store validation tests the value-only read alone.  With
\* includeMetadata=true a store exposing get but not getWithMetadata is not
\* rejected with InvalidStoreHandle, and with an array of keys the call
\* fails with the runtime's TypeError instead; a missing store or one
\* without get is rejected with InvalidStoreHandle whatever keys is.
C9_ValidationAsymmetry ==
    \A c \in Calls :
        /\ (pc[c] # "idle" /\ Flag(c) = "true" /\ args[c].kv = "getOnly")
             => /\ pc[c] = "done"
                /\ outcome[c].status = "error"
                /\ outcome[c].error # InvalidStoreHandle
                /\ KeysAreArray(c) => outcome[c].error = NotAFunction
                /\ received[c] = <<>>
        /\ (pc[c] # "idle" /\ ~HasGet(args[c].kv))
             => /\ pc[c] = "done"
                /\ outcome[c] = Thrown(InvalidStoreHandle)
                /\ received[c] = <<>>

C9_Witness ==
    \E c, d \in Calls :
        /\ pc[c] = "done" /\ pc[d] = "done"
        /\ args[c].kv = "getOnly" /\ Flag(c) = "true" /\ KeysAreArray(c)
        /\ outcome[c] = Thrown(NotAFunction)
        /\ args[d].kv = "none" /\ ~KeysAreArray(d)
        /\ outcome[d] = Thrown(InvalidStoreHandle)

\* C10: every finished call that read the store has the outcome of its own
\* read: the failure the store gave to its promise, or exactly the pairs of
\* the response to its promise, over its own keys; whatever other calls are
\* outstanding or finished and however the store changed meanwhile.
C10_CallsIndependent ==
    \A c \in Calls :
        (pc[c] = "done" /\ received[c] # <<>>)
        => /\ replies[c].status = "rejected"
                => outcome[c] = Thrown(replies[c].error)
           /\ replies[c].status # "rejected"
                => /\ replies[c].status = "fulfilled"
                   /\ outcome[c].status = "ok"
                   /\ SamePairs(outcome[c].value, replies[c].map)
                   /\ DOMAIN outcome[c].value =
                        {ToString(args[c].keys.elems[i]) :
                            i \in DOMAIN args[c].keys.elems}
                   /\ \A k \in DOMAIN outcome[c].value :
                        outcome[c].value[k] # Null
                          => received[c][1].fn = "getWithMetadata"
                               <=> DOMAIN outcome[c].value[k]
                                     = {"js", "value", "metadata"}

\* Two calls with the same arguments, both finished, with different results:
\* the store changed between their reads.
C10_Witness ==
    /\ scenario = "concurrent"
    /\ pc["c1"] = "done" /\ pc["c2"] = "done"
    /\ args["c1"] = args["c2"]
    /\ outcome["c1"].status = "ok" /\ outcome["c2"].status = "ok"
    /\ outcome["c1"].value # outcome["c2"].value

====
